---- MODULE Spec2Model ----
(***************************************************************************)
(* Model of the two explicit one-step ODE steppers of stunning_chainsaw:   *)
(*   solver::stepper_euler             (include/solver/stepper_euler.hpp)  *)
(*   chainsaw::stepper_improved_euler  (stepper_improved_euler.hpp)        *)
(*                                                                         *)
(* One driver owns a state vector x and one instance of each stepper.      *)
(* value_type / time_type arithmetic is modelled with exact rationals      *)
(* <<numerator, denominator>> (denominator > 0, lowest terms); rounding of *)
(* IEEE doubles is not modelled.                                           *)
(*                                                                         *)
(* The State template parameter is either a resizable container            *)
(* (has_resize = TRUE, default-constructed empty, e.g. std::vector) or a   *)
(* fixed-size one (has_resize = FALSE, default-constructed to zeros, e.g.  *)
(* std::array<T, N>, N = Len(x)).                                          *)
(***************************************************************************)
EXTENDS Integers, Sequences, FiniteSets, TLC

VARIABLES
    has_resize, \* detail::has_resize<state_type>::value for the State type
    x,          \* the driver's state vector, passed by reference to do_step
    pc,         \* position of the driver / of the do_step in progress
    sys,        \* the system callable passed to the do_step in progress
    t,          \* argument t of the do_step in progress (or of the last one)
    dt,         \* argument dt of the do_step in progress (or of the last one)
    e_m_dxdt,   \* stepper_euler::m_dxdt
    m_dxdt1,    \* stepper_improved_euler::m_dxdt1
    m_dxdt2,    \* stepper_improved_euler::m_dxdt2
    m_x,        \* stepper_improved_euler::m_x
    m_steps,    \* stepper_improved_euler::m_steps
    sys_call,   \* the system invocation in progress: which objects it was handed
    calls,      \* system invocations made by the current / last do_step
    dxdt_in,    \* the driver's own derivative vector, handed to the 5-argument do_step
    ref,        \* the reference vector of the last adjust_size
    e_copy,     \* a second stepper_euler made by the implicit copy constructor
    result,     \* how the last do_step ended, as seen from outside
    raised,     \* the system callable raised inside the last do_step
    last_op,    \* the operation the driver called last
    x_pre,      \* history: x on entry to the current / last do_step
    steps_pre,  \* history: m_steps on entry to the current / last do_step
    completed,  \* history: Improved Euler do_step calls that returned
    ops         \* history: operations the driver has started

vars == <<has_resize, x, pc, sys, t, dt, e_m_dxdt, m_dxdt1, m_dxdt2, m_x,
          m_steps, sys_call, calls, dxdt_in, ref, e_copy, result, raised,
          last_op, x_pre, steps_pre, completed, ops>>

----------------------------------------------------------------------------
(* Bounds of the model.                                                    *)

MaxLen == 2     \* longest state vector the driver uses
MaxOps == 3     \* operations the driver starts in one run
MaxSteps == 2   \* Improved Euler steps in one run (m_steps is capped here)

----------------------------------------------------------------------------
(* Exact rational arithmetic standing for value_type / time_type.          *)

Abs(n) == IF n < 0 THEN -n ELSE n

RECURSIVE GCD(_, _)
GCD(a, b) == IF b = 0 THEN a ELSE GCD(b, a % b)

Rat(n, d) == LET g == GCD(Abs(n), d) IN <<n \div g, d \div g>>

\* a + b, over the least common denominator
RAdd(a, b) ==
    LET g == GCD(a[2], b[2])
    IN  Rat(a[1] * (b[2] \div g) + b[1] * (a[2] \div g), a[2] * (b[2] \div g))

\* a * b, cancelling before multiplying
RMul(a, b) ==
    LET g1 == GCD(Abs(a[1]), b[2])
        g2 == GCD(Abs(b[1]), a[2])
    IN  <<(a[1] \div g1) * (b[1] \div g2), (a[2] \div g2) * (b[2] \div g1)>>

Zero == <<0, 1>>
One == <<1, 1>>
Half == <<1, 2>>
Tenth == <<1, 10>>

----------------------------------------------------------------------------
(* Inputs of the driver.                                                   *)

\* The state vectors the driver builds: one of every length, with elements
\* that differ from index to index (1, -1/2, 1, ...).
Element(i) == IF i % 2 = 1 THEN One ELSE <<-1, 2>>

Vecs == {[i \in 1..n |-> Element(i)] : n \in 0..MaxLen}

Times == {Zero, One}

Deltas == {Tenth, <<-1, 2>>}

\* adjust_size reads only reference.size(): the driver passes its own x or
\* a vector of some other length.
Refs == {x} \cup Vecs

Systems == {"decay", "clock"}

\* Values of type State: any length for a resizable container, the one
\* fixed length N for a fixed-size one.
StatesOfType(resizable, n) ==
    IF resizable THEN Vecs ELSE {v \in Vecs : Len(v) = n}

\* State(): a value-initialised state vector.
DefaultState(resizable, n) ==
    IF resizable THEN <<>> ELSE [i \in 1..n |-> Zero]

\* state_type::resize(n): keeps the leading elements, value-initialises new ones.
Resize(v, n) == [i \in 1..n |-> IF i <= Len(v) THEN v[i] ELSE Zero]

----------------------------------------------------------------------------
(* The system callable system(state_in, derivative_out, time): it writes   *)
(* derivative_out[i] for every index i of state_in and resizes nothing.    *)

F(s, v, time) ==
    IF s = "decay" THEN RMul(<<-1, 1>>, v)     \* dx/dt = -x
    ELSE time                                 \* dx/dt = t

SystemEval(s, state_in, derivative_out, time) ==
    [i \in 1..Len(derivative_out) |->
        IF i <= Len(state_in) THEN F(s, state_in[i], time)
        ELSE derivative_out[i]]

----------------------------------------------------------------------------
(* detail::it_algebra                                                      *)

\* increment(first, last, dxdt, dt): x[i] += dt * dxdt[i]
increment(xs, dxdt, h) ==
    [i \in 1..Len(xs) |-> RAdd(xs[i], RMul(h, dxdt[i]))]

\* scale_two_sum(first, last, a1, x1, a2, x2): dest[i] = a1*x1[i] + a2*x2[i]
scale_two_sum(dest, a1, x1, a2, x2) ==
    [i \in 1..Len(dest) |-> RAdd(RMul(a1, x1[i]), RMul(a2, x2[i]))]

\* scale_two_sum_accumulate(...): dest[i] += a1*x1[i] + a2*x2[i]
scale_two_sum_accumulate(dest, a1, x1, a2, x2) ==
    [i \in 1..Len(dest) |->
        RAdd(dest[i], RAdd(RMul(a1, x1[i]), RMul(a2, x2[i])))]

----------------------------------------------------------------------------
NoCall == [in |-> "none", out |-> "none", val |-> <<>>, time |-> Zero]

NoCopy == [exists |-> FALSE, m_dxdt |-> <<>>]

Init ==
    /\ has_resize \in BOOLEAN
    /\ x \in Vecs
    /\ pc = "idle"
    /\ sys = "decay"
    /\ t = Zero
    /\ dt = Zero
    /\ e_m_dxdt = DefaultState(has_resize, Len(x))
    /\ m_dxdt1 = DefaultState(has_resize, Len(x))
    /\ m_dxdt2 = DefaultState(has_resize, Len(x))
    /\ m_x = DefaultState(has_resize, Len(x))
    /\ m_steps = 0
    /\ sys_call = NoCall
    /\ calls = 0
    /\ dxdt_in \in StatesOfType(has_resize, Len(x))
    /\ ref = <<>>
    /\ e_copy = NoCopy
    /\ result = "none"
    /\ raised = FALSE
    /\ last_op = "none"
    /\ x_pre = x
    /\ steps_pre = 0
    /\ completed = 0
    /\ ops = 0

----------------------------------------------------------------------------
(* What every operation started by the driver records.                     *)

Enter(op, s, tv, dtv, res) ==
    /\ pc = "idle"
    /\ ops < MaxOps
    /\ ops' = ops + 1
    /\ last_op' = op
    /\ sys' = s
    /\ t' = tv
    /\ dt' = dtv
    /\ x_pre' = x
    /\ steps_pre' = m_steps
    /\ result' = res
    /\ raised' = FALSE

----------------------------------------------------------------------------
(* chainsaw::stepper_improved_euler                                        *)

\* Variant of adjust_size that also clears the step counter.
IE_AdjustSize_ResetsSteps(reference) ==
    /\ reference \in Refs \cap StatesOfType(has_resize, Len(x))
    /\ Enter("adjust_size", sys, t, dt, "returned")
    /\ ref' = reference
    /\ IF has_resize
       THEN /\ m_dxdt1' = Resize(m_dxdt1, Len(reference))
            /\ m_dxdt2' = Resize(m_dxdt2, Len(reference))
            /\ m_x' = Resize(m_x, Len(reference))
       ELSE UNCHANGED <<m_dxdt1, m_dxdt2, m_x>>
    /\ m_steps' = 0
    /\ pc' = "idle"
    /\ calls' = 0
    /\ UNCHANGED <<has_resize, x, e_m_dxdt, sys_call, dxdt_in, e_copy,
                   completed>>

\* Variant of adjust_size that forgets the predicted-state buffer.
IE_AdjustSize_ForgetsMx(reference) ==
    /\ reference \in Refs \cap StatesOfType(has_resize, Len(x))
    /\ Enter("adjust_size", sys, t, dt, "returned")
    /\ ref' = reference
    /\ IF has_resize
       THEN /\ m_dxdt1' = Resize(m_dxdt1, Len(reference))
            /\ m_dxdt2' = Resize(m_dxdt2, Len(reference))
       ELSE UNCHANGED <<m_dxdt1, m_dxdt2>>
    /\ pc' = "idle"
    /\ calls' = 0
    /\ UNCHANGED <<has_resize, x, e_m_dxdt, m_x, m_steps, sys_call, dxdt_in,
                   e_copy, completed>>

\* adjust_size(reference)
IE_AdjustSize(reference) ==
    /\ reference \in Refs \cap StatesOfType(has_resize, Len(x))
    /\ Enter("adjust_size", sys, t, dt, "returned")
    /\ ref' = reference
    /\ IF has_resize
       THEN /\ m_dxdt1' = Resize(m_dxdt1, Len(reference))
            /\ m_dxdt2' = Resize(m_dxdt2, Len(reference))
            /\ m_x' = Resize(m_x, Len(reference))
       ELSE UNCHANGED <<m_dxdt1, m_dxdt2, m_x>>
    /\ pc' = "idle"
    /\ calls' = 0
    /\ UNCHANGED <<has_resize, x, e_m_dxdt, m_steps, sys_call, dxdt_in,
                   e_copy, completed>>

\* The element accesses of do_step stay inside the buffers: the system
\* writes m_dxdt1 over the indices of x (line 87), scale_two_sum reads x and
\* m_dxdt1 over the indices of m_x (line 91), the system writes m_dxdt2 over
\* the indices of m_x (line 95), scale_two_sum_accumulate reads m_dxdt1 and
\* m_dxdt2 over the indices of x (lines 99-102).
IE_InRange(xv) ==
    /\ Len(xv) <= Len(m_dxdt1)
    /\ Len(m_x) <= Len(xv)
    /\ Len(m_x) <= Len(m_dxdt1)
    /\ Len(m_x) <= Len(m_dxdt2)
    /\ Len(xv) <= Len(m_dxdt1)
    /\ Len(xv) <= Len(m_dxdt2)

\* do_step(system, x, t, dt): entry, and the call system(x, m_dxdt1, t).
IE_DoStep(s, tv, dtv) ==
    /\ IE_InRange(x)
    /\ m_steps < MaxSteps
    /\ Enter("ie_do_step", s, tv, dtv, "none")
    /\ pc' = "ie_sys1"
    /\ sys_call' = [in |-> "x", out |-> "m_dxdt1", val |-> x, time |-> tv]
    /\ calls' = 1
    /\ UNCHANGED <<has_resize, x, e_m_dxdt, m_dxdt1, m_dxdt2, m_x, m_steps,
                   dxdt_in, ref, e_copy, completed>>

\* system(x, m_dxdt1, t) returns.
IE_Sys1Return ==
    /\ pc = "ie_sys1"
    /\ m_dxdt1' = SystemEval(sys, x, m_dxdt1, t)
    /\ sys_call' = NoCall
    /\ pc' = "ie_pred"
    /\ UNCHANGED <<has_resize, x, sys, t, dt, e_m_dxdt, m_dxdt2, m_x, m_steps,
                   calls, dxdt_in, ref, e_copy, result, raised, last_op,
                   x_pre, steps_pre, completed, ops>>

\* Variant of the predictor that writes the predicted state into x itself
\* and hands x to the second system call.
IE_Predict_InPlace ==
    /\ pc = "ie_pred"
    /\ x' = scale_two_sum(x, One, x, dt, m_dxdt1)
    /\ sys_call' = [in |-> "x", out |-> "m_dxdt2", val |-> x',
                    time |-> RAdd(t, dt)]
    /\ calls' = calls + 1
    /\ pc' = "ie_sys2"
    /\ UNCHANGED <<has_resize, sys, t, dt, e_m_dxdt, m_dxdt1, m_dxdt2, m_x,
                   m_steps, dxdt_in, ref, e_copy, result, raised, last_op,
                   x_pre, steps_pre, completed, ops>>

\* m_x = 1. * x + dt * m_dxdt1, then the call system(m_x, m_dxdt2, t + dt).
IE_Predict ==
    /\ pc = "ie_pred"
    /\ m_x' = scale_two_sum(m_x, One, x, dt, m_dxdt1)
    /\ sys_call' = [in |-> "m_x", out |-> "m_dxdt2", val |-> m_x',
                    time |-> RAdd(t, dt)]
    /\ calls' = calls + 1
    /\ pc' = "ie_sys2"
    /\ UNCHANGED <<has_resize, x, sys, t, dt, e_m_dxdt, m_dxdt1, m_dxdt2,
                   m_steps, dxdt_in, ref, e_copy, result, raised, last_op,
                   x_pre, steps_pre, completed, ops>>

\* Variant that rejects a step with a negative dt and starts it again.
IE_Sys2Return_Retry ==
    /\ pc = "ie_sys2"
    /\ m_dxdt2' = SystemEval(sys, m_x, m_dxdt2, RAdd(t, dt))
    /\ IF dt[1] < 0
       THEN /\ pc' = "ie_sys1"
            /\ calls' = calls + 1
            /\ sys_call' = [in |-> "x", out |-> "m_dxdt1", val |-> x,
                            time |-> t]
       ELSE /\ pc' = "ie_acc"
            /\ calls' = calls
            /\ sys_call' = NoCall
    /\ UNCHANGED <<has_resize, x, sys, t, dt, e_m_dxdt, m_dxdt1, m_x, m_steps,
                   dxdt_in, ref, e_copy, result, raised, last_op,
                   x_pre, steps_pre, completed, ops>>

\* system(m_x, m_dxdt2, t + dt) returns.
IE_Sys2Return ==
    /\ pc = "ie_sys2"
    /\ m_dxdt2' = SystemEval(sys, m_x, m_dxdt2, RAdd(t, dt))
    /\ sys_call' = NoCall
    /\ pc' = "ie_acc"
    /\ UNCHANGED <<has_resize, x, sys, t, dt, e_m_dxdt, m_dxdt1, m_x, m_steps,
                   calls, dxdt_in, ref, e_copy, result, raised, last_op,
                   x_pre, steps_pre, completed, ops>>

\* Variant of the corrector that weights both derivatives with dt.
IE_Accumulate_FullWeight ==
    /\ pc = "ie_acc"
    /\ x' = scale_two_sum_accumulate(x, dt, m_dxdt1, dt, m_dxdt2)
    /\ pc' = "ie_inc"
    /\ UNCHANGED <<has_resize, sys, t, dt, e_m_dxdt, m_dxdt1, m_dxdt2, m_x,
                   m_steps, sys_call, calls, dxdt_in, ref, e_copy, result,
                   raised, last_op, x_pre, steps_pre, completed, ops>>

\* x += dt * .5 * m_dxdt1 + dt * .5 * m_dxdt2
IE_Accumulate ==
    /\ pc = "ie_acc"
    /\ x' = scale_two_sum_accumulate(x, RMul(dt, Half), m_dxdt1,
                                     RMul(dt, Half), m_dxdt2)
    /\ pc' = "ie_inc"
    /\ UNCHANGED <<has_resize, sys, t, dt, e_m_dxdt, m_dxdt1, m_dxdt2, m_x,
                   m_steps, sys_call, calls, dxdt_in, ref, e_copy, result,
                   raised, last_op, x_pre, steps_pre, completed, ops>>

\* Variant that releases the predicted-state buffer at the end of a step.
IE_Increment_ClearsScratch ==
    /\ pc = "ie_inc"
    /\ m_steps' = m_steps + 1
    /\ m_x' = IF has_resize THEN <<>> ELSE m_x
    /\ pc' = "idle"
    /\ result' = "returned"
    /\ completed' = completed + 1
    /\ UNCHANGED <<has_resize, x, sys, t, dt, e_m_dxdt, m_dxdt1, m_dxdt2,
                   sys_call, calls, dxdt_in, ref, e_copy, raised, last_op,
                   x_pre, steps_pre, ops>>

\* ++m_steps, and do_step returns.
IE_Increment ==
    /\ pc = "ie_inc"
    /\ m_steps' = m_steps + 1
    /\ pc' = "idle"
    /\ result' = "returned"
    /\ completed' = completed + 1
    /\ UNCHANGED <<has_resize, x, sys, t, dt, e_m_dxdt, m_dxdt1, m_dxdt2, m_x,
                   sys_call, calls, dxdt_in, ref, e_copy, raised, last_op,
                   x_pre, steps_pre, ops>>

\* Variant without noexcept: the exception leaves do_step and reaches the
\* driver, which goes on.
IE_SysThrow_Propagates ==
    /\ pc \in {"ie_sys1", "ie_sys2"}
    /\ raised' = TRUE
    /\ pc' = "idle"
    /\ result' = "exception"
    /\ UNCHANGED <<has_resize, x, sys, t, dt, e_m_dxdt, m_dxdt1, m_dxdt2, m_x,
                   m_steps, sys_call, calls, dxdt_in, ref, e_copy, last_op,
                   x_pre, steps_pre, completed, ops>>

\* The system raises inside do_step, which is declared noexcept: the
\* exception cannot leave do_step and std::terminate ends the program.
IE_SysThrow ==
    /\ pc \in {"ie_sys1", "ie_sys2"}
    /\ raised' = TRUE
    /\ pc' = "terminated"
    /\ result' = "terminate"
    /\ UNCHANGED <<has_resize, x, sys, t, dt, e_m_dxdt, m_dxdt1, m_dxdt2, m_x,
                   m_steps, sys_call, calls, dxdt_in, ref, e_copy, last_op,
                   x_pre, steps_pre, completed, ops>>

\* do_step with buffers that do not fit x: out-of-range element access,
\* undefined behaviour. The run is marked and x holds arbitrary contents.
IE_DoStepUB ==
    /\ ~IE_InRange(x)
    /\ Enter("ie_do_step", sys, t, dt, "none")
    /\ pc' = "ub"
    /\ x' \in {v \in Vecs : Len(v) = Len(x)}
    /\ calls' = 0
    /\ UNCHANGED <<has_resize, e_m_dxdt, m_dxdt1, m_dxdt2, m_x, m_steps,
                   sys_call, dxdt_in, ref, e_copy, completed>>

----------------------------------------------------------------------------
(* solver::stepper_euler                                                   *)

\* increment reads dxdt over the indices of x (line 38); the system writes
\* m_dxdt over the indices of x (line 49).
E_InRange(xv, dxdtv) == Len(xv) <= Len(dxdtv)

\* Variant that keeps a copy of the supplied derivative in m_dxdt.
do_step_dxdt_StoresDxdt(s, xv, dxdtv, tv, dtv, m) ==
    [x |-> increment(xv, dxdtv, dtv), dxdt |-> dxdtv, m_dxdt |-> dxdtv,
     calls |-> 0]

\* do_step(system, x, dxdt, t, dt), lines 35-39: the values afterwards of
\* the objects it is handed or owns, and the system invocations it has made.
do_step_dxdt(s, xv, dxdtv, tv, dtv, m) ==
    [x |-> increment(xv, dxdtv, dtv), dxdt |-> dxdtv, m_dxdt |-> m,
     calls |-> 0]

\* do_step(system, x, dxdt, t, dt) called by the driver with its own dxdt_in.
E_DoStepDxdt(s, tv, dtv) ==
    /\ E_InRange(x, dxdt_in)
    /\ Enter("e_do_step_dxdt", s, tv, dtv, "returned")
    /\ LET r == do_step_dxdt(s, x, dxdt_in, tv, dtv, e_m_dxdt)
       IN  /\ x' = r.x
           /\ dxdt_in' = r.dxdt
           /\ e_m_dxdt' = r.m_dxdt
           /\ calls' = r.calls
    /\ pc' = "idle"
    /\ UNCHANGED <<has_resize, m_dxdt1, m_dxdt2, m_x, m_steps, sys_call, ref,
                   e_copy, completed>>

\* do_step(system, x, t, dt): entry, and the call system(x, m_dxdt, t).
E_DoStep(s, tv, dtv) ==
    /\ E_InRange(x, e_m_dxdt)
    /\ Enter("e_do_step", s, tv, dtv, "none")
    /\ pc' = "e_sys"
    /\ sys_call' = [in |-> "x", out |-> "m_dxdt", val |-> x, time |-> tv]
    /\ calls' = 1
    /\ UNCHANGED <<has_resize, x, e_m_dxdt, m_dxdt1, m_dxdt2, m_x, m_steps,
                   dxdt_in, ref, e_copy, completed>>

\* Variant of do_step that advances x with the derivative of the previous
\* call, evaluating the system only afterwards.
E_SysReturn_Stale ==
    /\ pc = "e_sys"
    /\ LET d == SystemEval(sys, x, e_m_dxdt, t)
           r == do_step_dxdt(sys, x, e_m_dxdt, t, dt, d)
       IN  /\ x' = r.x
           /\ e_m_dxdt' = r.m_dxdt
           /\ calls' = calls + r.calls
    /\ sys_call' = NoCall
    /\ pc' = "idle"
    /\ result' = "returned"
    /\ UNCHANGED <<has_resize, sys, t, dt, m_dxdt1, m_dxdt2, m_x, m_steps,
                   dxdt_in, ref, e_copy, raised, last_op, x_pre, steps_pre,
                   completed, ops>>

\* system(x, m_dxdt, t) returns, then this->do_step(system, x, m_dxdt, t, dt),
\* and do_step returns.
E_SysReturn ==
    /\ pc = "e_sys"
    /\ LET d == SystemEval(sys, x, e_m_dxdt, t)
           r == do_step_dxdt(sys, x, d, t, dt, d)
       IN  /\ x' = r.x
           /\ e_m_dxdt' = r.m_dxdt
           /\ calls' = calls + r.calls
    /\ sys_call' = NoCall
    /\ pc' = "idle"
    /\ result' = "returned"
    /\ UNCHANGED <<has_resize, sys, t, dt, m_dxdt1, m_dxdt2, m_x, m_steps,
                   dxdt_in, ref, e_copy, raised, last_op, x_pre, steps_pre,
                   completed, ops>>

\* The system raises inside do_step, which is declared noexcept.
E_SysThrow ==
    /\ pc = "e_sys"
    /\ raised' = TRUE
    /\ pc' = "terminated"
    /\ result' = "terminate"
    /\ UNCHANGED <<has_resize, x, sys, t, dt, e_m_dxdt, m_dxdt1, m_dxdt2, m_x,
                   m_steps, sys_call, calls, dxdt_in, ref, e_copy, last_op,
                   x_pre, steps_pre, completed, ops>>

\* do_step with an m_dxdt shorter than x: the system writes out of range.
E_DoStepUB ==
    /\ ~E_InRange(x, e_m_dxdt)
    /\ Enter("e_do_step", sys, t, dt, "none")
    /\ pc' = "ub"
    /\ x' \in {v \in Vecs : Len(v) = Len(x)}
    /\ calls' = 0
    /\ UNCHANGED <<has_resize, e_m_dxdt, m_dxdt1, m_dxdt2, m_x, m_steps,
                   sys_call, dxdt_in, ref, e_copy, completed>>

\* do_step with a caller's dxdt shorter than x: increment reads out of range.
E_DoStepDxdtUB ==
    /\ ~E_InRange(x, dxdt_in)
    /\ Enter("e_do_step_dxdt", sys, t, dt, "none")
    /\ pc' = "ub"
    /\ x' \in {v \in Vecs : Len(v) = Len(x)}
    /\ calls' = 0
    /\ UNCHANGED <<has_resize, e_m_dxdt, m_dxdt1, m_dxdt2, m_x, m_steps,
                   sys_call, dxdt_in, ref, e_copy, completed>>

\* stepper_euler declares no copy operations, so the implicit copy
\* constructor is available: stepper_euler b(a) copies m_dxdt.
E_Copy ==
    /\ ~e_copy.exists
    /\ Enter("e_copy", sys, t, dt, "returned")
    /\ e_copy' = [exists |-> TRUE, m_dxdt |-> e_m_dxdt]
    /\ pc' = "idle"
    /\ calls' = 0
    /\ UNCHANGED <<has_resize, x, e_m_dxdt, m_dxdt1, m_dxdt2, m_x, m_steps,
                   sys_call, dxdt_in, ref, completed>>

----------------------------------------------------------------------------
Next ==
    \/ \E r \in Refs : IE_AdjustSize(r)
    \/ \E s \in Systems, tv \in Times, dtv \in Deltas : IE_DoStep(s, tv, dtv)
    \/ IE_Sys1Return
    \/ IE_Predict
    \/ IE_Sys2Return
    \/ IE_Accumulate
    \/ IE_Increment
    \/ IE_SysThrow
    \/ IE_DoStepUB
    \/ \E s \in Systems, tv \in Times, dtv \in Deltas : E_DoStep(s, tv, dtv)
    \/ \E s \in Systems, tv \in Times, dtv \in Deltas : E_DoStepDxdt(s, tv, dtv)
    \/ E_SysReturn
    \/ E_SysThrow
    \/ E_DoStepUB
    \/ E_DoStepDxdtUB
    \/ E_Copy

Spec == Init /\ [][Next]_vars

----------------------------------------------------------------------------
(* Properties.                                                             *)

\* The derivative of a state vector, element by element, as the system
\* defines it.
Derivative(s, v, time) == [i \in 1..Len(v) |-> F(s, v[i], time)]

IE_Returned == pc = "idle" /\ last_op = "ie_do_step" /\ result = "returned"

E_Returned == pc = "idle" /\ last_op = "e_do_step" /\ result = "returned"

\* C1: steps() of the Improved Euler stepper is 0 after construction and
\* always equals the number of do_step calls that have completed, whatever
\* adjust_size calls are interleaved: each completed do_step adds exactly 1
\* and nothing else changes or resets the counter.
C1_StepsCountsCompleted ==
    pc # "ub" =>
        /\ m_steps = completed
        /\ (ops = 0 => m_steps = 0)

C1_Witness ==
    /\ pc = "idle"
    /\ last_op = "adjust_size"
    /\ completed = 2
    /\ m_steps = 2

\* C2: after an Improved Euler do_step(system, x, t, dt) with scratch
\* buffers of the length of x, for every index i
\*   x'[i] = x[i] + (dt/2)*f1[i] + (dt/2)*f2[i],
\* with f1 = system(x, t), x_pred[i] = x[i] + dt*f1[i] and
\* f2 = system(x_pred, t+dt); for dx/dt = -x, x = [1], t = 0, dt = 1/10:
\* f1 = -1, x_pred = [9/10], f2 = -9/10 and x[0] = 181/200 = 0.905.
C2_ImprovedEulerResult ==
    IE_Returned =>
        LET f1 == Derivative(sys, x_pre, t)
            x_pred == [i \in 1..Len(x_pre) |->
                          RAdd(x_pre[i], RMul(dt, f1[i]))]
            f2 == Derivative(sys, x_pred, RAdd(t, dt))
            half_dt == RMul(Half, dt)
        IN  /\ Len(x) = Len(x_pre)
            /\ \A i \in 1..Len(x_pre) :
                   x[i] = RAdd(RAdd(x_pre[i], RMul(half_dt, f1[i])),
                               RMul(half_dt, f2[i]))
            /\ (sys = "decay" /\ x_pre = <<One>> /\ t = Zero /\ dt = Tenth) =>
                   /\ m_dxdt1 = << <<-1, 1>> >>
                   /\ m_x = << <<9, 10>> >>
                   /\ m_dxdt2 = << <<-9, 10>> >>
                   /\ x = << <<181, 200>> >>

C2_Witness ==
    /\ IE_Returned
    /\ sys = "decay"
    /\ x_pre = <<One>>
    /\ t = Zero
    /\ dt = Tenth
    /\ x = << <<181, 200>> >>

\* C3: forward Euler do_step(system, x, t, dt) evaluates dxdt = system(x, t)
\* into m_dxdt and then sets x'[i] = x[i] + dt*dxdt[i] for every index i;
\* for dx/dt = -x, x = [1], t = 0, dt = 1/10 the result is x[0] = 9/10, and
\* m_dxdt afterwards holds that evaluation.
C3_EulerResult ==
    E_Returned =>
        LET dxdt == Derivative(sys, x_pre, t)
        IN  /\ e_m_dxdt = dxdt
            /\ Len(x) = Len(x_pre)
            /\ \A i \in 1..Len(x_pre) :
                   x[i] = RAdd(x_pre[i], RMul(dt, dxdt[i]))
            /\ (sys = "decay" /\ x_pre = <<One>> /\ t = Zero /\ dt = Tenth) =>
                   /\ x = << <<9, 10>> >>
                   /\ e_m_dxdt = << <<-1, 1>> >>

C3_Witness ==
    /\ E_Returned
    /\ sys = "decay"
    /\ x_pre = <<One>>
    /\ t = Zero
    /\ dt = Tenth
    /\ x = << <<9, 10>> >>
    /\ e_m_dxdt = << <<-1, 1>> >>

IE_InProgress == {"ie_sys1", "ie_pred", "ie_sys2", "ie_acc", "ie_inc"}

\* C4: a do_step that returns has invoked the system exactly once (forward
\* Euler) or exactly twice (Improved Euler) and has advanced the step exactly
\* once, for every x, t and dt; while it runs the invocations made so far
\* are those of its position, so no stage is ever repeated.
C4_SystemInvocations ==
    /\ E_Returned => calls = 1
    /\ pc = "e_sys" => calls = 1
    /\ IE_Returned => calls = 2 /\ m_steps = steps_pre + 1
    /\ pc \in {"ie_sys1", "ie_pred"} => calls = 1
    /\ pc \in {"ie_sys2", "ie_acc", "ie_inc"} => calls = 2

C4_Witness ==
    /\ IE_Returned
    /\ calls = 2
    /\ dt = <<-1, 2>>
    /\ ops = 3
    /\ \E i \in 1..Len(x) : x[i] # x_pre[i]

C6_AdjustSize ==
    [][(ops' = ops + 1 /\ last_op' = "adjust_size") =>
          IF has_resize
          THEN /\ Len(m_dxdt1') = Len(ref')
               /\ Len(m_dxdt2') = Len(ref')
               /\ Len(m_x') = Len(ref')
               /\ m_steps' = m_steps
          ELSE UNCHANGED <<m_dxdt1, m_dxdt2, m_x, m_steps>>]_vars

C6_Witness ==
    /\ has_resize
    /\ last_op = "adjust_size"
    /\ Len(x) = 2
    /\ completed = 1
    /\ Len(ref) = 1
    /\ Len(m_dxdt1) = 1
    /\ Len(m_dxdt2) = 1
    /\ Len(m_x) = 1
    /\ m_x # <<Zero>>

\* C7: no step of a do_step of either stepper changes the length of a scratch
\* buffer (the system callable resizes nothing): the lengths are those left
\* by construction or by adjust_size.
C7_ScratchLengthStable ==
    [][(last_op' \in {"ie_do_step", "e_do_step", "e_do_step_dxdt"}
        /\ pc' # "ub") =>
          /\ Len(m_dxdt1') = Len(m_dxdt1)
          /\ Len(m_dxdt2') = Len(m_dxdt2)
          /\ Len(m_x') = Len(m_x)
          /\ Len(e_m_dxdt') = Len(e_m_dxdt)]_vars

C7_Witness ==
    /\ has_resize
    /\ IE_Returned
    /\ completed = 2
    /\ Len(m_dxdt1) = 2
    /\ Len(m_dxdt2) = 2
    /\ Len(m_x) = 2

\* C8: the forward Euler do_step(system, x, dxdt, t, dt) with a supplied
\* derivative invokes no system callable and leaves m_dxdt and the supplied
\* dxdt as they were; its only effect is x'[i] = x[i] + dt*dxdt[i] for every
\* index i.
C8_SuppliedDerivative ==
    [][(ops' = ops + 1 /\ last_op' = "e_do_step_dxdt" /\ pc' # "ub") =>
          /\ calls' = 0
          /\ e_m_dxdt' = e_m_dxdt
          /\ dxdt_in' = dxdt_in
          /\ Len(x') = Len(x)
          /\ \A i \in 1..Len(x) : x'[i] = RAdd(x[i], RMul(dt', dxdt_in[i]))
          /\ UNCHANGED <<m_dxdt1, m_dxdt2, m_x, m_steps, e_copy>>]_vars

C8_Witness ==
    /\ pc = "idle"
    /\ last_op = "e_do_step_dxdt"
    /\ result = "returned"
    /\ calls = 0
    /\ Len(x) = 2
    /\ x[2] # x_pre[2]
    /\ e_m_dxdt # dxdt_in

\* C9 as stated: neither stepper can be duplicated by copy, so no second
\* stepper instance ever arises from one by copying.
C9_NoStepperCopy == ~e_copy.exists

\* C10: within one Improved Euler do_step the first system invocation is
\* handed the unmodified x at time t, the second is handed m_x (not x) at time
\* t+dt while x still holds its value on entry, x is written only after the
\* second invocation has returned, and m_steps is incremented only after x
\* has been written; the stages follow one another in that order.
C10_StageOrder ==
    /\ [](/\ pc = "ie_sys1" =>
               sys_call = [in |-> "x", out |-> "m_dxdt1", val |-> x_pre,
                           time |-> t]
          /\ pc = "ie_sys2" =>
               sys_call = [in |-> "m_x", out |-> "m_dxdt2", val |-> m_x,
                           time |-> RAdd(t, dt)]
          /\ pc \in {"ie_sys1", "ie_pred", "ie_sys2", "ie_acc"} => x = x_pre
          /\ pc \in IE_InProgress => m_steps = steps_pre
          /\ IE_Returned => m_steps = steps_pre + 1)
    /\ [][/\ pc = "ie_sys1" => pc' \in {"ie_pred", "terminated"}
          /\ pc = "ie_pred" => pc' = "ie_sys2"
          /\ pc = "ie_sys2" => pc' \in {"ie_acc", "terminated"}
          /\ pc = "ie_acc" => pc' = "ie_inc" /\ m_steps' = m_steps
          /\ pc = "ie_inc" => pc' = "idle" /\ x' = x]_vars

C10_Witness ==
    /\ pc = "ie_sys2"
    /\ sys_call.in = "m_x"
    /\ sys_call.val = m_x
    /\ m_x # x
    /\ x = x_pre
    /\ sys_call.time = RAdd(t, dt)
    /\ sys_call.time # t
    /\ m_steps = steps_pre

====
